---- MODULE Spec2Model ----
(***************************************************************************)
(* Markdown-to-PDF pipeline of downloadAsPdf (src/unnamed/part_000,        *)
(* lines 400-592): the inline tokenizer tokenizeLine, the wrapping         *)
(* renderer renderFormattedLine, the table renderer renderTable, the line  *)
(* loop with its page-break bookkeeping and the page-numbering pass.       *)
(*                                                                         *)
(* A JavaScript string is a sequence of one-character strings.             *)
(***************************************************************************)
EXTENDS Integers, Sequences, FiniteSets, TLC

VARIABLES
  tokLine,      \* tokenizer harness: the argument of tokenizeLine
  tokOut,       \* tokenizer harness: the returned Token[]
  tokPc,        \* tokenizer harness: "call" before, "ret" after the call
  \* downloadAsPdf
  pc,           \* position in downloadAsPdf and its nested helpers
  lineNo,       \* number of lines of reportText.split('\n') taken so far
  curLine,      \* the trimmed line the forEach callback is working on
  y,            \* let y: the vertical layout cursor
  inTable,      \* let inTable
  tableLines,   \* let tableLines
  tableNos,     \* (history) the line numbers of the lines in tableLines
  flushCont,    \* where renderTable was called from: "blank", "text", "end"
  bulletLines,  \* the bulletLines still to be rendered
  stampI,       \* addPageNumbers: the loop variable i
  stampN,       \* addPageNumbers: const pageCount
  saved,        \* number of doc.save calls
  errorShown,   \* the catch block's addErrorMessage has run
  \* the jsPDF document
  pageCount,    \* doc.internal.getNumberOfPages()
  curPage,      \* the page that drawing operations go to
  fontSize,     \* doc.getFontSize()
  fontWeight,   \* the font style set by doc.setFont(undefined, style)
  log,          \* (history) the operations performed on the document
  \* autoTable while it draws the table
  tRows,        \* rows still to be drawn, the current one first
  tCol,         \* index of the next cell of the current row
  tY,           \* top of the current row
  tColWidth,    \* width of a column
  \* renderFormattedLine
  caller,       \* who called: "para", "bullet", "cell"
  rx,           \* parameter x
  rmaxWidth,    \* parameter maxWidth
  currentX,     \* let currentX
  currentY,     \* parameter currentY
  tokens,       \* the tokens forEach has not finished, the current one first
  remainingText,\* let remainingText
  i,            \* let i
  originalFontSize,
  \* the call of downloadAsPdf and its surroundings
  pageW,        \* doc.internal.pageSize.getWidth()
  pageH,        \* doc.internal.pageSize.getHeight()
  input,        \* reportText.split('\n') when the report is fixed in advance;
                \* <<>> when its lines are chosen one by one
  run,          \* which call of downloadAsPdf on this report is running
  first,        \* (history) how the first call ended, once a second has begun
  \* the chat form and handleFormSubmit
  formDisabled, \* promptInput.disabled and sendButton.disabled
  promptValue,  \* promptInput.value
  analysisType, \* the value of the checked analysis-type radio, or "none"
  aiReady,      \* whether ai was initialised
  configsLoaded,\* whether analysisConfigs holds the configurations
  streams,      \* invocations suspended at await streamResponseToElement
  chunks,       \* chunks written to the message element so far
  lastExit,     \* (history) how the last invocation to complete ended
  overlapped    \* (history) a submission was processed while the form was
                \* disabled

tokVars == <<tokLine, tokOut, tokPc>>
layVars == <<pc, lineNo, curLine, y, inTable, tableLines, tableNos, flushCont,
             bulletLines, stampI, stampN, saved, errorShown>>
docVars == <<pageCount, curPage, fontSize, fontWeight, log>>
tabVars == <<tRows, tCol, tY, tColWidth>>
renVars == <<caller, rx, rmaxWidth, currentX, currentY, tokens,
             remainingText, i, originalFontSize>>
pdfVars == <<layVars, docVars, tabVars, renVars>>
invVars == <<pageW, pageH, input, run, first>>
formVars == <<formDisabled, promptValue, analysisType, aiReady, configsLoaded,
              streams, chunks, lastExit, overlapped>>
envVars == <<tokVars, invVars, formVars>>
vars == <<envVars, pdfVars>>

----------------------------------------------------------------------------
(* Bounds of the model. *)

\* number of fragments concatenated into a tokenizer input line
MaxFrags == 4

\* number of lines of the report text
MaxLines == 3

\* the page size of the reports whose lines are chosen freely, in a unit in
\* which the narrowest character is 1 wide: a page holds a few characters
\* per line and a few lines
PageWidth == 38
PageHeight == 60

\* number of lines of a report that is fixed in advance and laid out twice
MaxScript == 2

\* how far below 0 the loop variable i is followed; substring(0, i) is the
\* empty string for every i <= 0, so all negative values behave alike
MaxUnder == 2

----------------------------------------------------------------------------
(* Strings. *)

Star2 == <<"*", "*">>
Http == <<"h", "t", "t", "p">>
ColonSlashes == <<":", "/", "/">>

\* \s of the regular expressions and of String.prototype.trim
IsSpace(c) == c \in {" ", "\t"}

\* s.substring(a, b) with 0-based a, b: characters a+1 .. b of the sequence;
\* negative arguments are treated as 0 and arguments beyond the length as
\* the length, as String.prototype.substring does.
Clamp(n, len) == IF n < 0 THEN 0 ELSE IF n > len THEN len ELSE n

Substring(s, a, b) ==
  LET ca == Clamp(a, Len(s))
      cb == Clamp(b, Len(s))
      lo == IF ca < cb THEN ca ELSE cb
      hi == IF ca < cb THEN cb ELSE ca
  IN  SubSeq(s, lo + 1, hi)

\* s.startsWith(pat, p - 1) for a 1-based position p
StartsWithAt(s, p, pat) ==
  /\ p >= 1
  /\ p + Len(pat) - 1 <= Len(s)
  /\ \A k \in 1..Len(pat) : s[p + k - 1] = pat[k]

StartsWith(s, pat) == StartsWithAt(s, 1, pat)

MinOf(S) == CHOOSE m \in S : \A n \in S : m <= n
MaxOf(S) == CHOOSE m \in S : \A n \in S : m >= n

\* String.prototype.trim
RECURSIVE TrimLeft(_)
TrimLeft(s) ==
  IF s # <<>> /\ IsSpace(Head(s)) THEN TrimLeft(Tail(s)) ELSE s

RECURSIVE TrimRight(_)
TrimRight(s) ==
  IF s # <<>> /\ IsSpace(s[Len(s)])
  THEN TrimRight(SubSeq(s, 1, Len(s) - 1)) ELSE s

Trim(s) == TrimRight(TrimLeft(s))

\* s.split('|')
RECURSIVE Split(_)
Split(s) ==
  LET bars == { p \in 1..Len(s) : s[p] = "|" }
  IN  IF bars = {} THEN <<s>>
      ELSE <<SubSeq(s, 1, MinOf(bars) - 1)>>
           \o Split(SubSeq(s, MinOf(bars) + 1, Len(s)))

\* a.slice(from) and a.slice(1, -1) of an array
SliceFrom(a, from) == SubSeq(a, from + 1, Len(a))
SliceInner(a) == SubSeq(a, 2, Len(a) - 1)

----------------------------------------------------------------------------
(* The regular expression /(\*\*.*?\*\*|https?:\/\/[^\s]+)/g of            *)
(* tokenizeLine.  A match is described by the 1-based position of its      *)
(* first character and the position just after its last one; 0 = no match. *)

\* first alternative at p: "**", the shortest run of characters, "**"
BoldEndAt(s, p) ==
  IF ~StartsWithAt(s, p, Star2) THEN 0
  ELSE LET closers == { q \in (p + 2)..Len(s) : StartsWithAt(s, q, Star2) }
       IN  IF closers = {} THEN 0 ELSE MinOf(closers) + 2

\* position after "http", an optional "s" and "://" at p; 0 = no match
SchemeEndAt(s, p) ==
  IF ~StartsWithAt(s, p, Http) THEN 0
  ELSE IF StartsWithAt(s, p + 4, <<"s">> \o ColonSlashes) THEN p + 8
  ELSE IF StartsWithAt(s, p + 4, ColonSlashes) THEN p + 7
  ELSE 0

\* UrlEndAt as it would be with [^\s]* in place of [^\s]+ : a bare scheme
\* matches
UrlEndAtStar(s, p) ==
  LET e == SchemeEndAt(s, p)
  IN  IF e = 0 THEN 0
      ELSE LET stops == { q \in e..Len(s) : IsSpace(s[q]) }
           IN  IF stops = {} THEN Len(s) + 1 ELSE MinOf(stops)

\* second alternative at p: the scheme and the longest run (at least one)
\* of non-whitespace characters
UrlEndAt(s, p) ==
  LET e == SchemeEndAt(s, p)
  IN  IF e = 0 \/ e > Len(s) \/ IsSpace(s[e]) THEN 0
      ELSE LET stops == { q \in e..Len(s) : IsSpace(s[q]) }
           IN  IF stops = {} THEN Len(s) + 1 ELSE MinOf(stops)

\* the alternation tried at p, first alternative first
MatchEndAt(s, p) ==
  IF BoldEndAt(s, p) # 0 THEN BoldEndAt(s, p) ELSE UrlEndAt(s, p)

\* regex.exec(line) with regex.lastIndex = from - 1: the leftmost match at
\* or after from, as <<start, end>>, or <<0, 0>> for null
RegexExec(s, from) ==
  LET starts == { p \in from..Len(s) : MatchEndAt(s, p) # 0 }
  IN  IF starts = {} THEN <<0, 0>>
      ELSE <<MinOf(starts), MatchEndAt(s, MinOf(starts))>>

----------------------------------------------------------------------------
(* tokenizeLine *)

\* token.url of a token pushed without a url field
NoUrl == <<>>

Token(text, isBold, isLink, url) ==
  [text |-> text, isBold |-> isBold, isLink |-> isLink, url |-> url]

\* SpreadBold as it would be if the inner token were rebuilt from its text
\* instead of spread: the link flag and the url are lost
SpreadBoldTextOnly(toks) ==
  [k \in 1..Len(toks) |-> Token(toks[k].text, TRUE, FALSE, NoUrl)]

\* innerTokens.forEach(token => tokens.push({ ...token, isBold: true }))
SpreadBold(toks) == [k \in 1..Len(toks) |-> [toks[k] EXCEPT !.isBold = TRUE]]

\* TrailingTokens as it would be if the text after the last match were
\* forgotten
TrailingTokensDropped(line, lastIndex) == <<>>

\* if (lastIndex < line.length) tokens.push(rest as plain text)
TrailingTokens(line, lastIndex) ==
  IF lastIndex <= Len(line)
  THEN <<Token(SubSeq(line, lastIndex, Len(line)), FALSE, FALSE, NoUrl)>>
  ELSE <<>>

RECURSIVE tokenizeLine(_)
RECURSIVE TokenizeFrom(_, _)

\* the body of the while loop and the code after it, entered with
\* lastIndex = from - 1
TokenizeFrom(line, from) ==
  LET m == RegexExec(line, from)
  IN  IF m[1] = 0 THEN TrailingTokens(line, from)
      ELSE LET before == IF m[1] > from
                         THEN <<Token(SubSeq(line, from, m[1] - 1),
                                      FALSE, FALSE, NoUrl)>>
                         ELSE <<>>
               matchedText == SubSeq(line, m[1], m[2] - 1)
               isLink == StartsWith(matchedText, Http)
               matched ==
                 IF isLink
                 THEN <<Token(matchedText, FALSE, TRUE, matchedText)>>
                 ELSE SpreadBold(tokenizeLine(
                        Substring(matchedText, 2, Len(matchedText) - 2)))
           IN  before \o matched \o TokenizeFrom(line, m[2])

tokenizeLine(line) == TokenizeFrom(line, 1)

RECURSIVE ConcatText(_)
ConcatText(toks) ==
  IF toks = <<>> THEN <<>> ELSE Head(toks).text \o ConcatText(Tail(toks))

----------------------------------------------------------------------------
(* Geometry and the drawing facility.                                      *)

leftMargin == 15
topMargin == 20
lineHeight == 5
contentWidth == pageW - leftMargin * 2

\* doc.getTextWidth at font size 10: the width of a string is the sum of
\* the widths of its characters; "W" is a wide character, and wider in bold
CharWidth(c, weight) ==
  IF c = "W" THEN (IF weight = "bold" THEN 4 ELSE 3) ELSE 1

RECURSIVE getTextWidth(_, _)
getTextWidth(s, weight) ==
  IF s = <<>> THEN 0
  ELSE CharWidth(Head(s), weight) + getTextWidth(Tail(s), weight)

\* doc.splitTextToSize(text, maxLen) at the normal weight: the text cut
\* into lines, each the longest prefix of the rest that is at most maxLen
\* wide and at least one character long
RECURSIVE splitTextToSize(_, _)
splitTextToSize(text, maxLen) ==
  IF text = <<>> THEN <<>>
  ELSE LET fits == { n \in 1..Len(text) :
                       getTextWidth(SubSeq(text, 1, n), "normal") <= maxLen }
           n == IF fits = {} THEN 1 ELSE MaxOf(fits)
       IN  <<SubSeq(text, 1, n)>>
           \o splitTextToSize(SubSeq(text, n + 1, Len(text)), maxLen)

\* the document as checkPageBreak sees and changes it
DocState(yy, pages, page, trace) ==
  [y |-> yy, pageCount |-> pages, curPage |-> page, log |-> trace]

\* doc.addPage(): the new page is the last one and becomes the current one
addPage(d, why) ==
  [d EXCEPT !.pageCount = d.pageCount + 1,
            !.curPage = d.pageCount + 1,
            !.log = Append(d.log, [op |-> "addPage", page |-> d.pageCount + 1,
                                   by |-> why])]

\* checkPageBreak as it would be if it never added a page
checkPageBreakNever(d, spaceNeeded) == d

\* const checkPageBreak = (spaceNeeded = 10) => { ... }
checkPageBreak(d, spaceNeeded) ==
  IF d.y + spaceNeeded > pageH - 15
  THEN [addPage(d, "checkPageBreak") EXCEPT !.y = topMargin]
  ELSE d

----------------------------------------------------------------------------
(* Classification of a line and parsing of the table lines.                *)

\* line.includes('|') && line.startsWith('|')
IsTableRow(l) ==
  (\E p \in 1..Len(l) : l[p] = "|") /\ StartsWith(l, <<"|">>)

\* IsH2 as it would be if the test were for a single '#'
IsH2SingleHash(l) == StartsWith(l, <<"#", " ">>)

\* line.startsWith('## ')
IsH2(l) == StartsWith(l, <<"#", "#", " ">>)

\* line.startsWith('### ')
IsH3(l) == StartsWith(l, <<"#", "#", "#", " ">>)

\* line.startsWith('- ')
IsBullet(l) == StartsWith(l, <<"-", " ">>)

\* row.split('|').slice(1, -1).map(cell => cell.trim())
RowCells(row) ==
  LET inner == SliceInner(Split(row))
  IN  [k \in 1..Len(inner) |-> Trim(inner[k])]

\* const head = [tableLines[0]...]
TableHead(lines) == <<RowCells(lines[1])>>

\* TableBody as it would be with tableLines.slice(1)
TableBodyFromSeparator(lines) ==
  LET rows == SliceFrom(lines, 1)
  IN  [k \in 1..Len(rows) |-> RowCells(rows[k])]

\* const body = tableLines.slice(2).map(...)
TableBody(lines) ==
  LET rows == SliceFrom(lines, 2)
  IN  [k \in 1..Len(rows) |-> RowCells(rows[k])]

\* /https?:\/\//.test(cellText)
HasScheme(cellText) ==
  \E p \in 1..Len(cellText) : SchemeEndAt(cellText, p) # 0

\* willDrawCell as it would be if it never suppressed the default drawing
willDrawCellAlways(raw) == TRUE

\* willDrawCell: FALSE is "return false", TRUE is no return value
willDrawCell(raw) == ~HasScheme(raw)

\* didDrawCell: whether it calls renderFormattedLine
didDrawCell(raw) == HasScheme(raw)

\* the table layout facility: height of a row, padding of a cell on each
\* side, and the margin it keeps at the top and bottom of a page
RowHeight == 8
CellPad == 1
TableMargin == 15

\* the facility gives every column the same share of the content width
ColumnWidth(rows) ==
  LET ncols == MaxOf({1} \cup { Len(rows[k]) : k \in 1..Len(rows) })
  IN  contentWidth \div ncols

----------------------------------------------------------------------------
(* The report lines.                                                       *)

HeaderRow == <<"|", "A", "|", "B", "|">>
SeparatorRow == <<"|", "-", "|", "-", "|">>
OpenRow == <<"|", "a", "|", "b">>
UrlRow == <<"|">> \o Http \o ColonSlashes \o <<"W", "|", "b", "|">>
WideUrlRow == <<"|", "W">> \o Http \o ColonSlashes \o <<"|", "b", "|">>
H2Line == <<"#", "#", " ", "T">>
H3Line == <<"#", "#", "#", " ", "T">>
BulletLine == <<"-", " ", "a", "b", "W">>
ParaLine == <<" ", "a", "b">>
BoldLinkLine == Star2 \o <<"W">> \o Star2 \o <<" ">>
                  \o Http \o ColonSlashes \o <<"x">>
LongLine == <<"W", "W", "W", "W", "W", "W", "W">>
EmptyBoldLine == Star2 \o Star2

LineSet ==
  { <<>>, HeaderRow, SeparatorRow, OpenRow, UrlRow, WideUrlRow,
    H2Line, H3Line, BulletLine, ParaLine, BoldLinkLine, LongLine,
    EmptyBoldLine }

\* `\u2022  `: the bullet glyph (written "o") and the two spaces put before
\* the text of a bullet
BulletPrefix == <<"o", " ", " ">>

----------------------------------------------------------------------------
(* downloadAsPdf: the state after new jsPDF(...) and the declarations.     *)

PdfInit ==
  /\ pc = "title"
  /\ lineNo = 0
  /\ curLine = <<>>
  /\ y = topMargin
  /\ inTable = FALSE
  /\ tableLines = <<>>
  /\ tableNos = <<>>
  /\ flushCont = "none"
  /\ bulletLines = <<>>
  /\ stampI = 0
  /\ stampN = 0
  /\ saved = 0
  /\ errorShown = FALSE
  /\ pageCount = 1
  /\ curPage = 1
  /\ fontSize = 16
  /\ fontWeight = "normal"
  /\ log = <<>>
  /\ tRows = <<>>
  /\ tCol = 1
  /\ tY = 0
  /\ tColWidth = 0
  /\ caller = "none"
  /\ rx = 0
  /\ rmaxWidth = 0
  /\ currentX = 0
  /\ currentY = 0
  /\ tokens = <<>>
  /\ remainingText = <<>>
  /\ i = 0
  /\ originalFontSize = 0

\* first before any call has ended
NoRun == [pc |-> "none", pageCount |-> 0, log |-> <<>>]

\* lastExit before any invocation of handleFormSubmit has completed
NoExit == [path |-> "none", disabled |-> FALSE, formDisabled |-> FALSE]

\* the chat form at rest: ai initialised, configurations loaded, nothing
\* typed, no radio checked
FormIdle ==
  /\ formDisabled = FALSE
  /\ promptValue = <<>>
  /\ analysisType = "none"
  /\ aiReady = TRUE
  /\ configsLoaded = TRUE
  /\ streams = 0
  /\ chunks = 0
  /\ lastExit = NoExit
  /\ overlapped = FALSE

\* a first call on a report whose lines are chosen one by one
InvInit ==
  /\ pageW = PageWidth
  /\ pageH = PageHeight
  /\ input = <<>>
  /\ run = 1
  /\ first = NoRun

Init ==
  /\ PdfInit
  /\ InvInit
  /\ FormIdle
  /\ tokLine = <<>>
  /\ tokOut = <<>>
  /\ tokPc = "idle"

\* the lines the forEach can hand to its callback next
NextLines ==
  IF input = <<>> THEN (IF lineNo < MaxLines THEN LineSet ELSE {})
  ELSE IF lineNo < Len(input) THEN { input[lineNo + 1] } ELSE {}

\* the forEach has handed over every line
NoMoreLines ==
  IF input = <<>> THEN lineNo >= 1 ELSE lineNo = Len(input)

Doc == DocState(y, pageCount, curPage, log)

\* the entry of renderFormattedLine up to const tokens = tokenizeLine(line);
\* size is doc.getFontSize() at the call and trace the log before it
RenderBegin(who, text, x, cy, maxWidth, size, weight, page, trace) ==
  /\ caller' = who
  /\ rx' = x
  /\ rmaxWidth' = maxWidth
  /\ currentX' = x
  /\ currentY' = cy
  /\ tokens' = tokenizeLine(text)
  /\ remainingText' = <<>>
  /\ i' = 0
  /\ originalFontSize' = size
  /\ fontSize' = 10
  /\ log' = Append(trace, [op |-> "render", caller |-> who, line |-> text,
                           x |-> x, y |-> cy, maxWidth |-> maxWidth,
                           size |-> size, weight |-> weight, page |-> page,
                           no |-> lineNo])
  /\ pc' = "r_token"

\* renderTable up to the call of autoTable, which then draws the rows
RenderTableBegin(cont) ==
  LET head == TableHead(tableLines)
      body == TableBody(tableLines)
      d == checkPageBreak(Doc, Len(body) * 10 + 10)
      rows == head \o body
  IN  /\ y' = d.y
      /\ pageCount' = d.pageCount
      /\ curPage' = d.curPage
      /\ log' = Append(d.log, [op |-> "autoTable", head |-> head,
                               body |-> body, startY |-> d.y,
                               page |-> d.curPage, lines |-> tableLines,
                               nos |-> tableNos, cont |-> cont,
                               by |-> IF cont = "end" THEN lineNo
                                      ELSE lineNo + 1])
      /\ tRows' = rows
      /\ tCol' = 1
      /\ tY' = d.y
      /\ tColWidth' = ColumnWidth(rows)
      /\ flushCont' = cont
      /\ pc' = "table"

\* doc.text(`Financial Analyst Report: ...`) and y += 15
DrawTitle ==
  /\ pc = "title"
  /\ fontSize' = 24
  /\ fontWeight' = "bold"
  /\ log' = Append(log, [op |-> "title", page |-> curPage, y |-> y])
  /\ y' = y + 15
  /\ pc' = "lines"
  /\ UNCHANGED <<lineNo, curLine, inTable, tableLines, tableNos, flushCont,
                 bulletLines, stampI, stampN, saved, errorShown, pageCount,
                 curPage, tabVars, renVars, envVars>>

\* the forEach callback for a blank line
ReadBlank ==
  \E l \in NextLines :
    /\ pc = "lines"
    /\ Trim(l) = <<>>
    /\ lineNo' = lineNo + 1
    /\ curLine' = <<>>
    /\ IF inTable
       THEN /\ RenderTableBegin("blank")
            /\ UNCHANGED <<inTable, tableLines, tableNos, bulletLines, stampI,
                           stampN, saved, errorShown, fontSize, fontWeight,
                           renVars, envVars>>
       ELSE /\ y' = y + 5
            /\ log' = Append(log, [op |-> "blank", y |-> y + 5,
                                   no |-> lineNo + 1])
            /\ UNCHANGED <<pc, inTable, tableLines, tableNos, flushCont,
                           bulletLines, stampI, stampN, saved, errorShown,
                           pageCount, curPage, fontSize, fontWeight, tabVars,
                           renVars, envVars>>

\* the forEach callback for a table row: the line is only buffered
ReadTableRow ==
  \E l \in NextLines :
    /\ pc = "lines"
    /\ Trim(l) # <<>>
    /\ IsTableRow(Trim(l))
    /\ lineNo' = lineNo + 1
    /\ curLine' = Trim(l)
    /\ inTable' = TRUE
    /\ tableLines' = Append(tableLines, Trim(l))
    /\ tableNos' = Append(tableNos, lineNo + 1)
    /\ log' = Append(log, [op |-> "buffer", no |-> lineNo + 1])
    /\ UNCHANGED <<pc, y, flushCont, bulletLines, stampI, stampN, saved,
                   errorShown, pageCount, curPage, fontSize, fontWeight,
                   tabVars, renVars, envVars>>

\* the forEach callback for any other line, up to if (inTable) renderTable()
ReadText ==
  \E l \in NextLines :
    /\ pc = "lines"
    /\ Trim(l) # <<>>
    /\ ~IsTableRow(Trim(l))
    /\ lineNo' = lineNo + 1
    /\ curLine' = Trim(l)
    /\ IF inTable
       THEN /\ RenderTableBegin("text")
            /\ UNCHANGED <<inTable, tableLines, tableNos, bulletLines, stampI,
                           stampN, saved, errorShown, fontSize, fontWeight,
                           renVars, envVars>>
       ELSE /\ pc' = "block"
            /\ UNCHANGED <<y, inTable, tableLines, tableNos, flushCont,
                           bulletLines, stampI, stampN, saved, errorShown,
                           docVars, tabVars, renVars, envVars>>

\* after the forEach: if (inTable) renderTable()
EndOfInput ==
  /\ pc = "lines"
  /\ NoMoreLines
  /\ IF inTable
     THEN /\ RenderTableBegin("end")
          /\ UNCHANGED <<lineNo, curLine, inTable, tableLines, tableNos,
                         bulletLines, stampI, stampN, saved, errorShown,
                         fontSize, fontWeight, renVars, envVars>>
     ELSE /\ pc' = "number"
          /\ UNCHANGED <<lineNo, curLine, y, inTable, tableLines, tableNos,
                         flushCont, bulletLines, stampI, stampN, saved,
                         errorShown, docVars, tabVars, renVars, envVars>>

----------------------------------------------------------------------------
(* The blocks: headings, bullets and paragraphs.                           *)

\* if (line.startsWith('## ')) { ... }
Heading2 ==
  /\ pc = "block"
  /\ IsH2(curLine)
  /\ LET d == checkPageBreak(Doc, 10)
     IN  /\ pageCount' = d.pageCount
         /\ curPage' = d.curPage
         /\ log' = Append(d.log, [op |-> "heading", level |-> 2,
                                  text |-> Substring(curLine, 3, Len(curLine)),
                                  page |-> d.curPage, y |-> d.y + 5,
                                  no |-> lineNo])
         /\ y' = d.y + 5 + 10
  /\ fontSize' = 16
  /\ fontWeight' = "bold"
  /\ pc' = "lines"
  /\ UNCHANGED <<lineNo, curLine, inTable, tableLines, tableNos, flushCont,
                 bulletLines, stampI, stampN, saved, errorShown, tabVars,
                 renVars, envVars>>

\* else if (line.startsWith('### ')) { ... }
Heading3 ==
  /\ pc = "block"
  /\ ~IsH2(curLine)
  /\ IsH3(curLine)
  /\ LET d == checkPageBreak(Doc, 10)
     IN  /\ pageCount' = d.pageCount
         /\ curPage' = d.curPage
         /\ log' = Append(d.log, [op |-> "heading", level |-> 3,
                                  text |-> Substring(curLine, 4, Len(curLine)),
                                  page |-> d.curPage, y |-> d.y + 4,
                                  no |-> lineNo])
         /\ y' = d.y + 4 + 8
  /\ fontSize' = 12
  /\ fontWeight' = "bold"
  /\ pc' = "lines"
  /\ UNCHANGED <<lineNo, curLine, inTable, tableLines, tableNos, flushCont,
                 bulletLines, stampI, stampN, saved, errorShown, tabVars,
                 renVars, envVars>>

\* else if (line.startsWith('- ')) { ... } up to the first call of
\* renderFormattedLine
Bullet ==
  /\ pc = "block"
  /\ ~IsH2(curLine)
  /\ ~IsH3(curLine)
  /\ IsBullet(curLine)
  /\ LET d == checkPageBreak(Doc, 10)
         split == splitTextToSize(
                    BulletPrefix \o Substring(curLine, 2, Len(curLine)),
                    contentWidth - 3)
     IN  /\ pageCount' = d.pageCount
         /\ curPage' = d.curPage
         /\ y' = d.y
         /\ fontWeight' = "normal"
         /\ bulletLines' = Tail(split)
         /\ RenderBegin("bullet", Head(split), leftMargin + 3, d.y - 5,
                        contentWidth - 3, 10, "normal", d.curPage, d.log)
  /\ UNCHANGED <<lineNo, curLine, inTable, tableLines, tableNos, flushCont,
                 stampI, stampN, saved, errorShown, tabVars, envVars>>

\* else { y = renderFormattedLine(line, leftMargin, y, contentWidth); } up
\* to the call
Paragraph ==
  /\ pc = "block"
  /\ ~IsH2(curLine)
  /\ ~IsH3(curLine)
  /\ ~IsBullet(curLine)
  /\ LET d == checkPageBreak(Doc, 10)
     IN  /\ pageCount' = d.pageCount
         /\ curPage' = d.curPage
         /\ y' = d.y
         /\ RenderBegin("para", curLine, leftMargin, d.y, contentWidth,
                        fontSize, fontWeight, d.curPage, d.log)
  /\ UNCHANGED <<lineNo, curLine, inTable, tableLines, tableNos, flushCont,
                 bulletLines, stampI, stampN, saved, errorShown, fontWeight,
                 tabVars, envVars>>

----------------------------------------------------------------------------
(* renderFormattedLine.                                                    *)

\* the condition of the first inner while loop
ShrinkCond(n) ==
  getTextWidth(Substring(remainingText, 0, n), fontWeight)
    > rx + rmaxWidth - currentX

\* WrapShrinkCond as it would be if the loop after a wrap were missing
WrapShrinkCondNever(n) == FALSE

\* the condition of the inner while loop after a wrap
WrapShrinkCond(n) ==
  getTextWidth(Substring(remainingText, 0, n), fontWeight) > rmaxWidth

\* i-- ; a value below -MaxUnder is represented by -1
Decrement(n) == IF n > 0 - MaxUnder THEN n - 1 ELSE 0 - 1

\* tokens.forEach(token => { setFont; setTextColor; let remainingText; and
\* the first test of while (remainingText.length > 0)
TokenBegin ==
  /\ pc = "r_token"
  /\ tokens # <<>>
  /\ fontWeight' = IF Head(tokens).isBold THEN "bold" ELSE "normal"
  /\ remainingText' = Head(tokens).text
  /\ IF Head(tokens).text # <<>>
     THEN /\ i' = Len(Head(tokens).text)
          /\ pc' = "r_shrink"
          /\ UNCHANGED tokens
     ELSE /\ tokens' = Tail(tokens)
          /\ UNCHANGED <<i, pc>>
  /\ UNCHANGED <<lineNo, curLine, y, inTable, tableLines, tableNos, flushCont,
                 bulletLines, stampI, stampN, saved, errorShown, pageCount,
                 curPage, fontSize, log, tabVars, caller, rx, rmaxWidth,
                 currentX, currentY, originalFontSize, envVars>>

\* one iteration of while (getTextWidth(...) > (x + maxWidth - currentX))
ShrinkStep ==
  /\ pc = "r_shrink"
  /\ ShrinkCond(i)
  /\ i' = Decrement(i)
  /\ UNCHANGED <<layVars, docVars, tabVars, caller, rx, rmaxWidth, currentX,
                 currentY, tokens, remainingText, originalFontSize, envVars>>

\* the exit of that loop and if (i === 0 && currentX > x) { ... } up to its
\* inner loop
ShrinkExit ==
  /\ pc = "r_shrink"
  /\ ~ShrinkCond(i)
  /\ IF i = 0 /\ currentX > rx
     THEN LET d == checkPageBreak(Doc, lineHeight)
          IN  /\ currentY' = currentY + lineHeight
              /\ y' = d.y
              /\ pageCount' = d.pageCount
              /\ curPage' = d.curPage
              /\ log' = d.log
              /\ currentX' = rx
              /\ i' = Len(remainingText)
              /\ pc' = "r_shrink2"
     ELSE /\ pc' = "r_emit"
          /\ UNCHANGED <<currentY, y, pageCount, curPage, log, currentX, i>>
  /\ UNCHANGED <<lineNo, curLine, inTable, tableLines, tableNos, flushCont,
                 bulletLines, stampI, stampN, saved, errorShown, fontSize,
                 fontWeight, tabVars, caller, rx, rmaxWidth, tokens,
                 remainingText, originalFontSize, envVars>>

\* one iteration of while (getTextWidth(...) > maxWidth) after a wrap
WrapShrinkStep ==
  /\ pc = "r_shrink2"
  /\ WrapShrinkCond(i)
  /\ i' = Decrement(i)
  /\ UNCHANGED <<layVars, docVars, tabVars, caller, rx, rmaxWidth, currentX,
                 currentY, tokens, remainingText, originalFontSize, envVars>>

WrapShrinkExit ==
  /\ pc = "r_shrink2"
  /\ ~WrapShrinkCond(i)
  /\ pc' = "r_emit"
  /\ UNCHANGED <<lineNo, curLine, y, inTable, tableLines, tableNos, flushCont,
                 bulletLines, stampI, stampN, saved, errorShown, docVars,
                 tabVars, renVars, envVars>>

\* if (i === 0 && remainingText.length > 0) { i = 1; }
ForcedLength(n, text) == IF n = 0 /\ Len(text) > 0 THEN 1 ELSE n

\* RestAfter as it would be if a wrap swallowed the character it breaks at
RestAfterSkip(text, n) == Substring(text, n + 1, Len(text))

\* remainingText.substring(i)
RestAfter(text, n) == Substring(text, n, Len(text))

\* the rest of the body of while (remainingText.length > 0): the text is
\* drawn, currentX and remainingText are advanced and the loop is tested
\* again; when it ends the forEach callback returns
Emit ==
  /\ pc = "r_emit"
  /\ LET n == ForcedLength(i, remainingText)
         textToPrint == Substring(remainingText, 0, n)
         token == Head(tokens)
         rest == RestAfter(remainingText, n)
     IN  /\ log' = Append(log,
                [op |-> IF token.isLink THEN "link" ELSE "text",
                 text |-> textToPrint,
                 url |-> IF ~token.isLink THEN NoUrl
                         ELSE IF token.url # NoUrl THEN token.url
                         ELSE textToPrint,
                 x |-> currentX, y |-> currentY, page |-> curPage,
                 w |-> getTextWidth(textToPrint, fontWeight),
                 bold |-> fontWeight = "bold", forced |-> i = 0])
         /\ currentX' = currentX + getTextWidth(textToPrint, fontWeight)
         /\ remainingText' = rest
         /\ IF rest # <<>>
            THEN /\ i' = Len(rest)
                 /\ pc' = "r_shrink"
                 /\ UNCHANGED tokens
            ELSE /\ i' = n
                 /\ pc' = "r_token"
                 /\ tokens' = Tail(tokens)
  /\ UNCHANGED <<lineNo, curLine, y, inTable, tableLines, tableNos, flushCont,
                 bulletLines, stampI, stampN, saved, errorShown, pageCount,
                 curPage, fontSize, fontWeight, tabVars, caller, rx,
                 rmaxWidth, currentY, originalFontSize, envVars>>

\* doc.setFont(undefined, 'normal') before the return
RestoredWeight(weight) == "normal"

\* the end of renderFormattedLine and what its caller does with the
\* returned currentY + lineHeight
RenderReturn ==
  /\ pc = "r_token"
  /\ tokens = <<>>
  /\ fontWeight' = RestoredWeight(fontWeight)
  /\ LET returned == currentY + lineHeight
         trace == Append(log, [op |-> "return", caller |-> caller,
                               size |-> originalFontSize,
                               weight |-> RestoredWeight(fontWeight),
                               y |-> returned])
     IN  CASE caller = "para" ->
                /\ y' = returned
                /\ fontSize' = originalFontSize
                /\ log' = trace
                /\ pc' = "lines"
                /\ UNCHANGED <<bulletLines, renVars>>
           [] caller = "bullet" /\ bulletLines = <<>> ->
                /\ y' = returned
                /\ fontSize' = originalFontSize
                /\ log' = trace
                /\ pc' = "lines"
                /\ UNCHANGED <<bulletLines, renVars>>
           [] caller = "bullet" /\ bulletLines # <<>> ->
                /\ y' = returned
                /\ bulletLines' = Tail(bulletLines)
                /\ RenderBegin("bullet", Head(bulletLines), leftMargin + 3,
                               returned - 5, contentWidth - 3,
                               originalFontSize, RestoredWeight(fontWeight),
                               curPage, trace)
           [] caller = "cell" ->
                /\ fontSize' = originalFontSize
                /\ log' = trace
                /\ pc' = "table"
                /\ UNCHANGED <<y, bulletLines, renVars>>
  /\ UNCHANGED <<lineNo, curLine, inTable, tableLines, tableNos, flushCont,
                 stampI, stampN, saved, errorShown, pageCount, curPage,
                 tabVars, envVars>>

----------------------------------------------------------------------------
(* autoTable drawing the table, with the two hooks of renderTable.         *)

\* one cell: willDrawCell, the default drawing of the text unless the hook
\* returned false, then didDrawCell
TableCell ==
  /\ pc = "table"
  /\ tRows # <<>>
  /\ tCol <= Len(Head(tRows))
  /\ LET raw == Head(tRows)[tCol]
         cellX == leftMargin + (tCol - 1) * tColWidth
         log1 == Append(log, [op |-> "cell", raw |-> raw, x |-> cellX,
                              y |-> tY, width |-> tColWidth,
                              page |-> curPage])
         log2 == IF willDrawCell(raw)
                 THEN Append(log1, [op |-> "cellText", raw |-> raw,
                                    page |-> curPage])
                 ELSE log1
     IN  IF didDrawCell(raw)
         THEN RenderBegin("cell", raw, cellX + CellPad, tY + CellPad + 3,
                          tColWidth - 2 * CellPad, fontSize, fontWeight,
                          curPage, log2)
         ELSE /\ log' = log2
              /\ UNCHANGED <<pc, fontSize, renVars>>
  /\ tCol' = tCol + 1
  /\ UNCHANGED <<lineNo, curLine, y, inTable, tableLines, tableNos, flushCont,
                 bulletLines, stampI, stampN, saved, errorShown, pageCount,
                 curPage, fontWeight, tRows, tY, tColWidth, envVars>>

\* the end of a row: the next row goes below it, or on a new page when it
\* does not fit above the bottom margin of the facility
TableRowEnd ==
  /\ pc = "table"
  /\ tRows # <<>>
  /\ tCol > Len(Head(tRows))
  /\ tRows' = Tail(tRows)
  /\ tCol' = 1
  /\ IF Tail(tRows) # <<>> /\ tY + 2 * RowHeight > pageH - TableMargin
     THEN LET d == addPage(Doc, "autoTable")
          IN  /\ pageCount' = d.pageCount
              /\ curPage' = d.curPage
              /\ log' = d.log
              /\ tY' = TableMargin
     ELSE /\ tY' = tY + RowHeight
          /\ UNCHANGED <<pageCount, curPage, log>>
  /\ UNCHANGED <<layVars, fontSize, fontWeight, tColWidth, renVars, envVars>>

\* ContinueAt as it would be if the line that ended a table were dropped
ContinueAtDropsLine(cont) ==
  CASE cont = "blank" -> "lines"
    [] cont = "text" -> "lines"
    [] cont = "end" -> "number"

\* where the code goes on after renderTable() has returned: the rest of the
\* forEach callback for the arriving line, or addPageNumbers after the loop
ContinueAt(cont) ==
  CASE cont = "blank" -> "lines"
    [] cont = "text" -> "block"
    [] cont = "end" -> "number"

\* InTableAfterFlush as it would be if the flag were left set
InTableAfterFlushKept == TRUE

\* inTable = false at the end of renderTable
InTableAfterFlush == FALSE

\* ResetTableLines as it would be if the buffer were not cleared
ResetTableLinesKept(buffer) == buffer

\* tableLines = []
ResetTableLines(buffer) == <<>>

\* renderTable after autoTable: y = lastAutoTable.finalY + 10, inTable =
\* false, tableLines = [], and the code after the call of renderTable
TableEnd ==
  /\ pc = "table"
  /\ tRows = <<>>
  /\ inTable' = InTableAfterFlush
  /\ tableLines' = ResetTableLines(tableLines)
  /\ tableNos' = ResetTableLines(tableNos)
  /\ CASE flushCont = "blank" ->
            /\ y' = tY + 10 + 5
            /\ log' = Append(log, [op |-> "blank", y |-> tY + 10 + 5,
                                   no |-> lineNo])
       [] flushCont = "text" ->
            /\ y' = tY + 10
            /\ UNCHANGED log
       [] flushCont = "end" ->
            /\ y' = tY + 10
            /\ UNCHANGED log
  /\ pc' = ContinueAt(flushCont)
  /\ UNCHANGED <<lineNo, curLine, flushCont, bulletLines, stampI, stampN,
                 saved, errorShown, pageCount, curPage, fontSize, fontWeight,
                 tabVars, renVars, envVars>>

----------------------------------------------------------------------------
(* addPageNumbers, doc.save and the catch block.                           *)

\* StampBound as it would be with i < pageCount
StampBoundExclusive(n) == n - 1

\* the last value of i in for (let i = 1; i <= pageCount; i++)
StampBound(n) == n

\* addPageNumbers up to the loop
AddPageNumbersBegin ==
  /\ pc = "number"
  /\ stampN' = pageCount
  /\ stampI' = 1
  /\ fontSize' = 9
  /\ fontWeight' = "italic"
  /\ pc' = "stamp"
  /\ UNCHANGED <<lineNo, curLine, y, inTable, tableLines, tableNos, flushCont,
                 bulletLines, saved, errorShown, pageCount, curPage, log,
                 tabVars, renVars, envVars>>

\* one iteration of the loop: doc.setPage(i); doc.text(`Page i of N`)
StampPage ==
  /\ pc = "stamp"
  /\ stampI <= StampBound(stampN)
  /\ curPage' = stampI
  /\ log' = Append(log, [op |-> "stamp", page |-> stampI, i |-> stampI,
                         n |-> stampN])
  /\ stampI' = stampI + 1
  /\ UNCHANGED <<pc, lineNo, curLine, y, inTable, tableLines, tableNos,
                 flushCont, bulletLines, stampN, saved, errorShown, pageCount,
                 fontSize, fontWeight, tabVars, renVars, envVars>>

\* doc.save(...)
Save ==
  /\ pc = "stamp"
  /\ stampI > StampBound(stampN)
  /\ saved' = saved + 1
  /\ log' = Append(log, [op |-> "save"])
  /\ pc' = "done"
  /\ UNCHANGED <<lineNo, curLine, y, inTable, tableLines, tableNos, flushCont,
                 bulletLines, stampI, stampN, errorShown, pageCount, curPage,
                 fontSize, fontWeight, tabVars, renVars, envVars>>

\* Throw as it would be if the catch block saved what had been drawn
ThrowSavesPartial ==
  /\ pc \notin {"done", "caught"}
  /\ pc' = "caught"
  /\ errorShown' = TRUE
  /\ saved' = saved + 1
  /\ log' = Append(log, [op |-> "save"])
  /\ UNCHANGED <<lineNo, curLine, y, inTable, tableLines, tableNos, flushCont,
                 bulletLines, stampI, stampN, pageCount, curPage, fontSize,
                 fontWeight, tabVars, renVars, envVars>>

\* a call made inside the try block throws: catch (e) { console.error;
\* addErrorMessage("An error occurred while creating the PDF file."); }
Throw ==
  /\ pc \notin {"done", "caught"}
  /\ pc' = "caught"
  /\ errorShown' = TRUE
  /\ UNCHANGED <<lineNo, curLine, y, inTable, tableLines, tableNos, flushCont,
                 bulletLines, stampI, stampN, saved, docVars, tabVars,
                 renVars, envVars>>

\* the steps of the program itself
Run ==
  \/ DrawTitle
  \/ ReadBlank
  \/ ReadTableRow
  \/ ReadText
  \/ EndOfInput
  \/ Heading2
  \/ Heading3
  \/ Bullet
  \/ Paragraph
  \/ TokenBegin
  \/ ShrinkStep
  \/ ShrinkExit
  \/ WrapShrinkStep
  \/ WrapShrinkExit
  \/ Emit
  \/ RenderReturn
  \/ TableCell
  \/ TableRowEnd
  \/ TableEnd
  \/ AddPageNumbersBegin
  \/ StampPage
  \/ Save

Next == Run \/ Throw

Spec == Init /\ [][Next]_vars

\* the steps of renderFormattedLine
RenderRun ==
  \/ TokenBegin
  \/ ShrinkStep
  \/ ShrinkExit
  \/ WrapShrinkStep
  \/ WrapShrinkExit
  \/ Emit
  \/ RenderReturn

\* the call is synchronous and runs to completion: inside
\* renderFormattedLine the next step is always taken; nothing obliges a
\* call to throw
FairSpec == Spec /\ WF_vars(RenderRun)

----------------------------------------------------------------------------
(* A report fixed in advance, downloaded twice.                            *)

\* new jsPDF({ format: 'a4' }): the page in millimetres
A4Width == 210
A4Height == 297

\* "## Title\n\n- item one\n- item two\n".split('\n')
TitleLine == <<"#", "#", " ", "T", "i", "t", "l", "e">>
ItemOne == <<"-", " ", "i", "t", "e", "m", " ", "o", "n", "e">>
ItemTwo == <<"-", " ", "i", "t", "e", "m", " ", "t", "w", "o">>
E2EInput == <<TitleLine, <<>>, ItemOne, ItemTwo, <<>>>>

\* the reports: every report of up to MaxScript lines, and the example
Scripts ==
  UNION { [1..n -> LineSet] : n \in 1..MaxScript } \cup { E2EInput }

\* the example is laid out on the small page and on the a4 page
PageSizes(report) ==
  IF report = E2EInput
  THEN { <<PageWidth, PageHeight>>, <<A4Width, A4Height>> }
  ELSE { <<PageWidth, PageHeight>> }

ScriptInit ==
  /\ PdfInit
  /\ FormIdle
  /\ tokLine = <<>>
  /\ tokOut = <<>>
  /\ tokPc = "idle"
  /\ input \in Scripts
  /\ \E size \in PageSizes(input) :
       /\ pageW = size[1]
       /\ pageH = size[2]
  /\ run = 1
  /\ first = NoRun

\* FreshCursor as it would be if y were declared outside downloadAsPdf
FreshCursorShared(old) == old

\* let y = topMargin: every call has its own cursor
FreshCursor(old) == topMargin

\* the download button is clicked again once the first call has ended:
\* downloadAsPdf runs on the same reportText with a new doc and new locals
Reinvoke ==
  /\ pc \in {"done", "caught"}
  /\ run = 1
  /\ input # <<>>
  /\ run' = 2
  /\ first' = [pc |-> pc, pageCount |-> pageCount, log |-> log]
  /\ pc' = "title"
  /\ lineNo' = 0
  /\ curLine' = <<>>
  /\ y' = FreshCursor(y)
  /\ inTable' = FALSE
  /\ tableLines' = <<>>
  /\ tableNos' = <<>>
  /\ flushCont' = "none"
  /\ bulletLines' = <<>>
  /\ stampI' = 0
  /\ stampN' = 0
  /\ saved' = 0
  /\ errorShown' = FALSE
  /\ pageCount' = 1
  /\ curPage' = 1
  /\ fontSize' = 16
  /\ fontWeight' = "normal"
  /\ log' = <<>>
  /\ tRows' = <<>>
  /\ tCol' = 1
  /\ tY' = 0
  /\ tColWidth' = 0
  /\ caller' = "none"
  /\ rx' = 0
  /\ rmaxWidth' = 0
  /\ currentX' = 0
  /\ currentY' = 0
  /\ tokens' = <<>>
  /\ remainingText' = <<>>
  /\ i' = 0
  /\ originalFontSize' = 0
  /\ UNCHANGED <<tokVars, pageW, pageH, input, formVars>>

ScriptNext == Next \/ Reinvoke

ScriptSpec == ScriptInit /\ [][ScriptNext]_vars

----------------------------------------------------------------------------
(* The chat form and handleFormSubmit.  The handler runs without           *)
(* interruption up to its await; each action below is one such run, or an  *)
(* event of the page.  The message list of the page is not part of the     *)
(* state.                                                                  *)

\* invocations that can be suspended at the await at one time, and chunks
\* of one response
MaxStreams == 2
MaxChunks == 2

\* what the user can have typed, and the radios
Prompts == { <<>>, <<" ">>, <<"a">> }
AnalysisTypes == {"chat", "quick_summary", "deep_dive", "technical"}

\* the page as the script finds it: ai may have failed to initialise, which
\* called disableChat(), and the configurations may not be there
FormInit ==
  /\ PdfInit
  /\ InvInit
  /\ tokLine = <<>>
  /\ tokOut = <<>>
  /\ tokPc = "idle"
  /\ aiReady \in BOOLEAN
  /\ configsLoaded \in BOOLEAN
  /\ formDisabled = ~aiReady
  /\ promptValue = <<>>
  /\ analysisType = "none"
  /\ streams = 0
  /\ chunks = 0
  /\ lastExit = NoExit
  /\ overlapped = FALSE

\* an invocation is over
Exit(path, disabled, state) ==
  [path |-> path, disabled |-> disabled, formDisabled |-> state]

\* !(!userInput || !ai || !analysisType)
Accepted == Trim(promptValue) # <<>> /\ aiReady /\ analysisType # "none"

\* the user types into promptInput, which a disabled input does not allow
Type ==
  /\ ~formDisabled
  /\ \E v \in Prompts : promptValue' = v
  /\ UNCHANGED <<formDisabled, analysisType, aiReady, configsLoaded, streams,
                 chunks, lastExit, overlapped, tokVars, invVars, pdfVars>>

\* the user checks an analysis-type radio
SelectType ==
  /\ \E t \in AnalysisTypes : analysisType' = t
  /\ UNCHANGED <<formDisabled, promptValue, aiReady, configsLoaded, streams,
                 chunks, lastExit, overlapped, tokVars, invVars, pdfVars>>

\* a submit event whose invocation returns at the first test
SubmitIgnored ==
  /\ ~Accepted
  /\ lastExit' = Exit("guard", FALSE, formDisabled)
  /\ UNCHANGED <<formDisabled, promptValue, analysisType, aiReady,
                 configsLoaded, streams, chunks, overlapped, tokVars, invVars,
                 pdfVars>>

\* a submit event whose invocation disables the form, finds no
\* message-content element in the new message and returns
SubmitMissingContent ==
  /\ Accepted
  /\ formDisabled' = TRUE
  /\ promptValue' = <<>>
  /\ overlapped' = (overlapped \/ formDisabled)
  /\ lastExit' = Exit("missing", TRUE, TRUE)
  /\ UNCHANGED <<analysisType, aiReady, configsLoaded, streams, chunks,
                 tokVars, invVars, pdfVars>>

\* a submit event whose invocation disables the form and enters the try,
\* where buildChatPrompt or buildPrompt throws: catch, then finally
SubmitPromptError ==
  /\ Accepted
  /\ ~configsLoaded
  /\ formDisabled' = FALSE
  /\ promptValue' = <<>>
  /\ overlapped' = (overlapped \/ formDisabled)
  /\ lastExit' = Exit("error", TRUE, FALSE)
  /\ UNCHANGED <<analysisType, aiReady, configsLoaded, streams, chunks,
                 tokVars, invVars, pdfVars>>

\* a submit event whose invocation disables the form, builds the prompt and
\* is suspended at await streamResponseToElement
SubmitStreams ==
  /\ Accepted
  /\ configsLoaded
  /\ streams < MaxStreams
  /\ formDisabled' = TRUE
  /\ promptValue' = <<>>
  /\ overlapped' = (overlapped \/ formDisabled)
  /\ streams' = streams + 1
  /\ UNCHANGED <<analysisType, aiReady, configsLoaded, chunks, lastExit,
                 tokVars, invVars, pdfVars>>

\* for await (const chunk of responseStream): one chunk is written
StreamChunk ==
  /\ streams > 0
  /\ chunks < MaxChunks
  /\ chunks' = chunks + 1
  /\ UNCHANGED <<formDisabled, promptValue, analysisType, aiReady,
                 configsLoaded, streams, lastExit, overlapped, tokVars,
                 invVars, pdfVars>>

\* the stream ends: the buttons are added, then finally
StreamEnd ==
  /\ streams > 0
  /\ streams' = streams - 1
  /\ chunks' = 0
  /\ formDisabled' = FALSE
  /\ lastExit' = Exit("success", TRUE, FALSE)
  /\ UNCHANGED <<promptValue, analysisType, aiReady, configsLoaded,
                 overlapped, tokVars, invVars, pdfVars>>

\* the stream fails: catch, then finally
StreamError ==
  /\ streams > 0
  /\ streams' = streams - 1
  /\ chunks' = 0
  /\ formDisabled' = FALSE
  /\ lastExit' = Exit("error", TRUE, FALSE)
  /\ UNCHANGED <<promptValue, analysisType, aiReady, configsLoaded,
                 overlapped, tokVars, invVars, pdfVars>>

FormNext ==
  \/ Type
  \/ SelectType
  \/ SubmitIgnored
  \/ SubmitMissingContent
  \/ SubmitPromptError
  \/ SubmitStreams
  \/ StreamChunk
  \/ StreamEnd
  \/ StreamError

FormSpec == FormInit /\ [][FormNext]_vars

----------------------------------------------------------------------------
(* Tokenizer harness: tokenizeLine applied to every line built from at     *)
(* most MaxFrags fragments.                                                *)

Frags ==
  { Star2, <<"*">>, <<"a">>, <<" ">>, <<"x">>,
    Http \o ColonSlashes, Http \o <<"s">> \o ColonSlashes }

RECURSIVE FragLines(_)
FragLines(n) ==
  IF n = 0 THEN { <<>> }
  ELSE LET shorter == FragLines(n - 1)
       IN  shorter \cup { l \o f : l \in shorter, f \in Frags }

\* "**a https://x.com b**"
BoldLinkExample ==
  Star2 \o <<"a", " ">> \o Http \o <<"s">> \o ColonSlashes
        \o <<"x", ".", "c", "o", "m">> \o <<" ", "b">> \o Star2

TokLines == FragLines(MaxFrags) \cup { BoldLinkExample }

TokInit ==
  /\ PdfInit
  /\ InvInit
  /\ FormIdle
  /\ tokLine \in TokLines
  /\ tokOut = <<>>
  /\ tokPc = "call"

TokenizeCall ==
  /\ tokPc = "call"
  /\ tokOut' = tokenizeLine(tokLine)
  /\ tokPc' = "ret"
  /\ UNCHANGED <<tokLine, invVars, formVars, pdfVars>>

TokNext == TokenizeCall

TokSpec == TokInit /\ [][TokNext]_vars

----------------------------------------------------------------------------
(* Properties of the tokenizer (checked under TokSpec).                    *)

\* the positions of the characters of line that belong to the "**"
\* delimiters of the bold segments matched at or after from
RECURSIVE BoldDelimiters(_, _)
BoldDelimiters(line, from) ==
  LET m == RegexExec(line, from)
  IN  IF m[1] = 0 THEN {}
      ELSE (IF line[m[1]] = "*"
            THEN { m[1], m[1] + 1, m[2] - 2, m[2] - 1 } ELSE {})
           \cup BoldDelimiters(line, m[2])

\* s without the characters at the positions in drop
RECURSIVE Without(_, _, _)
Without(s, drop, p) ==
  IF p > Len(s) THEN <<>>
  ELSE (IF p \in drop THEN <<>> ELSE <<s[p]>>) \o Without(s, drop, p + 1)

\* a "**" ... "**" pair somewhere in s
HasBoldPair(s) ==
  \E p \in 1..Len(s) : \E q \in (p + 2)..Len(s) :
     StartsWithAt(s, p, Star2) /\ StartsWithAt(s, q, Star2)

\* "http://" or "https://" followed by a non-whitespace character
HasUrl(s) ==
  \E p \in 1..Len(s) :
     \/ /\ StartsWithAt(s, p, Http \o ColonSlashes)
        /\ p + 7 <= Len(s) /\ ~IsSpace(s[p + 7])
     \/ /\ StartsWithAt(s, p, Http \o <<"s">> \o ColonSlashes)
        /\ p + 8 <= Len(s) /\ ~IsSpace(s[p + 8])

\* C3 as stated: for every input line the concatenation of the text fields
\* of the returned spans, in order, is the original line.
C3_ConcatIsLine ==
  tokPc = "ret" => ConcatText(tokOut) = tokLine

\* C3 amended: the concatenation of the text fields of the returned spans is
\* the original line with the "**" delimiters of every matched bold segment
\* removed, so it is the line itself when no bold segment is matched.
C3_ConcatIsLineWithoutDelimiters ==
  tokPc = "ret" =>
    /\ ConcatText(tokOut) = Without(tokLine, BoldDelimiters(tokLine, 1), 1)
    /\ (~HasBoldPair(tokLine) => ConcatText(tokOut) = tokLine)

C3_Witness ==
  /\ tokPc = "ret"
  /\ tokLine = <<"a">> \o Star2 \o <<"x">> \o Star2
  /\ ConcatText(tokOut) = <<"a", "x">>

\* C4: when the whole line is one bold segment, the spans are those of the
\* inner text, each with isBold = true and its own isLink and url; the line
\* "**a https://x.com b**" gives three bold spans, the middle one a link to
\* the matched URL; a link span carries the matched text as url; a line
\* without bold markers gives no bold span, and its URL a link span.
C4_BoldInheritedLinkKept ==
  tokPc = "ret" =>
    /\ BoldEndAt(tokLine, 1) = Len(tokLine) + 1 =>
         LET inner == tokenizeLine(SubSeq(tokLine, 3, Len(tokLine) - 2))
         IN  /\ Len(tokOut) = Len(inner)
             /\ \A k \in 1..Len(inner) :
                  /\ tokOut[k].isBold
                  /\ tokOut[k].text = inner[k].text
                  /\ tokOut[k].isLink = inner[k].isLink
                  /\ tokOut[k].url = inner[k].url
    /\ tokLine = BoldLinkExample =>
         /\ Len(tokOut) = 3
         /\ \A k \in 1..3 : tokOut[k].isBold /\ (tokOut[k].isLink <=> k = 2)
         /\ tokOut[2].url = SubSeq(BoldLinkExample, 5, 17)
         /\ tokOut[2].text = tokOut[2].url
    /\ \A k \in 1..Len(tokOut) :
         IF tokOut[k].isLink
         THEN tokOut[k].url = tokOut[k].text /\ StartsWith(tokOut[k].text, Http)
         ELSE tokOut[k].url = NoUrl
    /\ (\A p \in 1..Len(tokLine) : tokLine[p] # "*") =>
         /\ \A k \in 1..Len(tokOut) : ~tokOut[k].isBold
         /\ HasUrl(tokLine) => \E k \in 1..Len(tokOut) : tokOut[k].isLink

C4_Witness ==
  /\ tokPc = "ret"
  /\ tokLine = BoldLinkExample
  /\ Len(tokOut) = 3
  /\ tokOut[2].isLink /\ tokOut[2].isBold

\* C5: a line with no bold marker pair and no URL gives exactly one plain
\* span whose text is the whole line; the empty line gives no span.
C5_PlainLineOneSpan ==
  tokPc = "ret" =>
    /\ tokLine = <<>> => tokOut = <<>>
    /\ (tokLine # <<>> /\ ~HasBoldPair(tokLine) /\ ~HasUrl(tokLine)) =>
         /\ Len(tokOut) = 1
         /\ tokOut[1].text = tokLine
         /\ ~tokOut[1].isBold /\ ~tokOut[1].isLink

C5_Witness ==
  /\ tokPc = "ret"
  /\ tokLine = Star2 \o <<"a">> \o Http \o ColonSlashes
  /\ Len(tokOut) = 1

----------------------------------------------------------------------------
(* Properties of the layout (checked under Spec and FairSpec).             *)

InRender == pc \in {"r_token", "r_shrink", "r_shrink2", "r_emit"}

Events(kind) == { k \in 1..Len(log) : log[k].op = kind }
Emissions == Events("text") \cup Events("link")

\* the call of renderFormattedLine that the emission at k belongs to
RenderCallOf(k) == MaxOf({ j \in Events("render") : j < k })

\* C1 as stated: every call of renderFormattedLine with a maxWidth of at
\* least the width of the narrowest character (1) returns: the program does
\* not stay inside the character-consuming loops for ever, also when a
\* character wider than maxWidth is followed by further text.
C1_RenderTerminates ==
  (InRender /\ rmaxWidth >= 1) ~> ~InRender

\* C2: every emitted substring is at most maxWidth wide, unless it is the
\* single character emitted by the fallback if (i === 0) i = 1.
C2_EmittedFits ==
  \A k \in Emissions :
    \/ log[k].w <= log[RenderCallOf(k)].maxWidth
    \/ Len(log[k].text) = 1 /\ log[k].forced

C2_Witness ==
  /\ \E k \in Emissions :
       /\ log[k].w > log[RenderCallOf(k)].maxWidth
       /\ Len(log[k].text) = 1 /\ log[k].forced
  /\ \E k \in Emissions :
       log[k].w = log[RenderCallOf(k)].maxWidth /\ Len(log[k].text) > 1

C7_LinkCellsOnlyByRenderer ==
  /\ \A k \in Events("cellText") : ~HasScheme(log[k].raw)
  /\ \A k \in Events("cell") :
       IF HasScheme(log[k].raw)
       THEN /\ k + 1 <= Len(log)
            /\ log[k + 1].op = "render"
            /\ log[k + 1].caller = "cell"
            /\ log[k + 1].line = log[k].raw
            /\ log[k + 1].x = log[k].x + CellPad
            /\ log[k + 1].y = log[k].y + CellPad + 3
            /\ log[k + 1].maxWidth = log[k].width - 2 * CellPad
       ELSE /\ k + 1 <= Len(log)
            /\ log[k + 1].op = "cellText"
            /\ log[k + 1].raw = log[k].raw
            /\ k + 2 <= Len(log) => log[k + 2].op \notin {"render", "text", "link"}
  /\ \A k \in Events("render") :
       log[k].caller = "cell" =>
         /\ k > 1 /\ log[k - 1].op = "cell" /\ HasScheme(log[k - 1].raw)
  /\ \A k \in Emissions :
       log[RenderCallOf(k)].caller = "cell" =>
         /\ log[k].x >= log[RenderCallOf(k)].x
         /\ \/ log[k].x + log[k].w
                 <= log[RenderCallOf(k)].x + log[RenderCallOf(k)].maxWidth
            \/ Len(log[k].text) = 1

C7_Witness ==
  /\ pc = "done"
  /\ \E k \in Events("cell") : HasScheme(log[k].raw)
  /\ \E k \in Events("cellText") : TRUE
  /\ \E k \in Events("link") : log[RenderCallOf(k)].caller = "cell"

\* the flushes that were handed line number n
FlushesOf(n) ==
  { j \in Events("autoTable") :
      \E p \in 1..Len(log[j].nos) : log[j].nos[p] = n }

LayoutFinished == pc \in {"number", "stamp", "done"}

\* C8: a line classified as a table row is buffered and nothing is drawn
\* until the flush that takes it; it is handed to at most one flush, which
\* takes the whole run of consecutive rows it belongs to; when layout has
\* finished it has been handed to exactly one flush, the buffer is empty
\* and no table run is open.
C8_BufferedThenFlushedOnce ==
  /\ \A k \in Events("buffer") :
       LET n == log[k].no
           fl == FlushesOf(n)
       IN  /\ Cardinality(fl) <= 1
           /\ \A j \in fl :
                /\ j > k
                /\ \A m \in (k + 1)..(j - 1) :
                     log[m].op \in {"buffer", "addPage"}
                /\ \A p \in 1..Len(log[j].nos) :
                     log[j].nos[p] = log[j].nos[1] + p - 1
                /\ log[j].nos[1] - 1 \notin { log[m].no : m \in Events("buffer") }
           /\ fl = {} =>
                /\ pc # "caught" => (inTable /\ ~LayoutFinished)
                /\ \E p \in 1..Len(tableNos) : tableNos[p] = n
                /\ \A m \in (k + 1)..Len(log) : log[m].op = "buffer"
           /\ LayoutFinished => Cardinality(fl) = 1
  /\ LayoutFinished => tableLines = <<>> /\ ~inTable

C8_Witness ==
  /\ pc = "done"
  /\ Cardinality(Events("autoTable")) = 2
  /\ Cardinality(Events("buffer")) = 2

\* C9: the stamps are made after all content, one per page in page order,
\* each on its own page and with the number of pages that exist at the end
\* of layout; nothing but the save follows them.
C9_PagesStampedOnce ==
  /\ pageCount = 1 + Cardinality(Events("addPage"))
  /\ \A k \in Events("stamp") :
       /\ pc \in {"stamp", "done", "caught"}
       /\ ~inTable /\ tableLines = <<>>
       /\ \A j \in (k + 1)..Len(log) : log[j].op \in {"stamp", "save"}
       /\ log[k].n = pageCount
       /\ log[k].page = log[k].i
       /\ log[k].i = 1 + Cardinality({ j \in Events("stamp") : j < k })
  /\ pc = "done" => Cardinality(Events("stamp")) = pageCount

C9_Witness ==
  /\ pc = "done"
  /\ pageCount = 2
  /\ Cardinality(Events("stamp")) = 2

\* C10: after an exception the error notice is shown and nothing is saved;
\* the document is saved at most once, and only when every line has been
\* processed, no table is open and every page has its number.
C10_NoSaveAfterError ==
  /\ pc = "caught" <=> errorShown
  /\ errorShown => saved = 0 /\ Events("save") = {}
  /\ saved <= 1
  /\ saved = Cardinality(Events("save"))
  /\ saved = 1 =>
       /\ pc = "done"
       /\ ~inTable /\ tableLines = <<>>
       /\ Cardinality(Events("stamp")) = pageCount
       /\ log[Len(log)].op = "save"

C10_Witness ==
  /\ pc = "caught"
  /\ errorShown
  /\ saved = 0
  /\ Events("stamp") # {}

----------------------------------------------------------------------------
(* C11: two calls on the same report.                                      *)

\* the 'Page i of N' texts of a trace, in the order they were stamped
Stamps(trace) == SelectSeq(trace, LAMBDA e : e.op = "stamp")

IsPrefix(a, b) == Len(a) <= Len(b) /\ SubSeq(b, 1, Len(a)) = a

\* C11: a second call of downloadAsPdf on the same report starts from the
\* state a first call starts from (cursor at the top margin, empty table
\* buffer, not in a table, one page), draws what the first call drew in the
\* same order, and when both calls complete they have the same number of
\* pages and the same sequence of 'Page i of N' texts
C11_SecondRunSame ==
  run = 2 =>
    /\ pc = "title" =>
          /\ y = topMargin
          /\ tableLines = <<>>
          /\ ~inTable
          /\ pageCount = 1
    /\ first.pc = "done" => IsPrefix(log, first.log)
    /\ (first.pc = "done" /\ pc = "done") =>
          /\ pageCount = first.pageCount
          /\ Stamps(log) = Stamps(first.log)

\* both calls completed on a report of two pages
C11_Witness ==
  /\ run = 2
  /\ pc = "done"
  /\ first.pc = "done"
  /\ pageCount = 2
  /\ Len(Stamps(log)) = 2


----------------------------------------------------------------------------
(* C12: the report "## Title\n\n- item one\n- item two\n".               *)

\* the places of the trace where the events of one kind are
HeadingsAt == { k \in 1..Len(log) : log[k].op = "heading" }
BlanksAt == { k \in 1..Len(log) : log[k].op = "blank" }
RendersAt(who) ==
  { k \in 1..Len(log) : log[k].op = "render" /\ log[k].caller = who }
BulletsAt(n) == { k \in RendersAt("bullet") : log[k].no = n }

\* C12: for the report "## Title\n\n- item one\n- item two\n" the layout
\* draws one level-2 heading "Title", then the bullet of line 3, then the
\* bullet of line 4, and nothing else as a block; the blank line 2 advances
\* the cursor once, by 5, between the heading and the first bullet; on the
\* a4 page, where the report fits, each bullet is one physical line and no
\* page is added
C12_ExampleReport ==
  input = E2EInput =>
    /\ \A h \in HeadingsAt :
          /\ log[h].level = 2
          /\ log[h].text = <<"T", "i", "t", "l", "e">>
          /\ log[h].no = 1
    /\ RendersAt("para") = {} /\ RendersAt("cell") = {}
    /\ \A k \in 1..Len(log) : log[k].op # "autoTable"
    /\ \A b \in RendersAt("bullet") : log[b].no \in {3, 4}
    /\ \A a \in BulletsAt(3) : \E h \in HeadingsAt : h < a
    /\ \A b \in BulletsAt(4) :
          /\ BulletsAt(3) # {}
          /\ \A a \in BulletsAt(3) : a < b
    /\ \A k \in BlanksAt :
          log[k].no = 2 =>
            /\ \E h \in HeadingsAt : h < k /\ log[k].y = log[h].y + 10 + 5
            /\ \A b \in RendersAt("bullet") : k < b
            /\ \A j \in BlanksAt : log[j].no = 2 => j = k
    /\ pc = "done" =>
          /\ Cardinality(HeadingsAt) = 1
          /\ BulletsAt(3) # {} /\ BulletsAt(4) # {}
          /\ \E k \in BlanksAt : log[k].no = 2
          /\ pageH = A4Height =>
                /\ Cardinality(BulletsAt(3)) = 1
                /\ Cardinality(BulletsAt(4)) = 1
                /\ pageCount = 1
                /\ \A k \in 1..Len(log) : log[k].op # "addPage"

\* the example has been laid out on the a4 page, with both bullets drawn
C12_Witness ==
  /\ input = E2EInput
  /\ pageH = A4Height
  /\ pc = "done"
  /\ pageCount = 1
  /\ Cardinality(RendersAt("bullet")) = 2
  /\ \E k \in 1..Len(log) :
        /\ log[k].op = "text"
        /\ log[k].text =
             BulletPrefix \o <<"i", "t", "e", "m", " ", "t", "w", "o">>


----------------------------------------------------------------------------
(* C13, C14: renderFormattedLine and the state around it.                  *)

\* C13 as stated: when renderFormattedLine returns, the font size and the
\* font weight of the document are the ones it was called with, whatever
\* the weight was, bold included
C13_FontRestored ==
  \A k \in Events("return") :
    /\ log[k].size = log[RenderCallOf(k)].size
    /\ log[k].weight = log[RenderCallOf(k)].weight

\* C14 as stated: a physical line that renderFormattedLine draws after a
\* wrap is never drawn below the printable bottom, page height - 15
C14_WrappedLinesOnPage ==
  \A k \in Emissions :
    log[k].y > log[RenderCallOf(k)].y => log[k].y <= pageH - 15


----------------------------------------------------------------------------
(* C15: the page-break check before a block.                               *)

\* the cursor after checkPageBreak(spaceNeeded) in the current state
CursorAfterCheck(spaceNeeded) ==
  IF y + spaceNeeded > pageH - 15 THEN topMargin ELSE y

PagesAfterCheck(spaceNeeded) ==
  IF y + spaceNeeded > pageH - 15 THEN pageCount + 1 ELSE pageCount

\* the first emission of the call of renderFormattedLine logged at k
IsFirstEmissionOf(j, k) ==
  /\ j \in Emissions
  /\ RenderCallOf(j) = k
  /\ ~\E e \in Emissions : k < e /\ e < j

\* a heading, bullet or paragraph is emitted: checkPageBreak ran with 10
TextBlockStep ==
  (pc = "block" /\ pc' # "caught") =>
    /\ pageCount' = PagesAfterCheck(10)
    /\ curPage' = IF pageCount' > pageCount THEN pageCount' ELSE curPage
    /\ LET e == log'[Len(log')]
           base == CursorAfterCheck(10)
       IN  /\ e.op \in {"heading", "render"}
           /\ e.page = curPage'
           /\ e.op = "heading" => e.y \in {base + 5, base + 4}
           /\ e.op = "render" => e.y \in {base, base - 5}

\* a table is emitted: checkPageBreak ran with 10 * bodyRows + 10
TableBlockStep ==
  (pc = "lines" /\ pc' = "table") =>
    LET bodyRows == MaxOf({0, Len(tableLines) - 2})
    IN  /\ pageCount' = PagesAfterCheck(10 * bodyRows + 10)
        /\ tY' = CursorAfterCheck(10 * bodyRows + 10)
        /\ log'[Len(log')].op = "autoTable"
        /\ log'[Len(log')].startY = tY'

\* C15: before a heading, bullet, paragraph or table is emitted, a page is
\* added and the cursor reset to the top margin exactly when the cursor
\* plus the estimated height (10, or 10 * bodyRows + 10 for a table)
\* exceeds page height - 15; so every heading, and the first physical line
\* of every bullet and paragraph, is drawn at a y of at most page height -
\* 15, however many blank lines came before
C15_CheckedBeforeBlock ==
  /\ [](\A k \in Events("heading") : log[k].y <= pageH - 15)
  /\ [](\A k \in Events("render") :
          log[k].caller \in {"para", "bullet"} =>
            /\ log[k].y <= pageH - 15
            /\ \A j \in Emissions :
                  IsFirstEmissionOf(j, k) => log[j].y = log[k].y)
  /\ [][TextBlockStep /\ TableBlockStep]_vars

\* two blank lines moved the cursor to the printable bottom, and the
\* paragraph after them was drawn at the top margin of a second page
C15_Witness ==
  \E k \in Events("render") :
    /\ log[k].caller = "para"
    /\ log[k].page = 2
    /\ log[k].y = topMargin
    /\ log[k - 1].op = "addPage"
    /\ Cardinality(Events("blank")) = 2
    /\ \E j \in Emissions : IsFirstEmissionOf(j, k)


----------------------------------------------------------------------------
(* C16: the cells of a table line.                                         *)

\* the fields of a line split on '|' and trimmed
Fields(row) == [k \in 1..Len(Split(row)) |-> Trim(Split(row)[k])]

\* f without its leading field when that is empty
DropEmptyFirst(f) == IF f # <<>> /\ Head(f) = <<>> THEN Tail(f) ELSE f

\* f without its trailing field when that is empty
DropEmptyLast(f) ==
  IF f # <<>> /\ f[Len(f)] = <<>> THEN SubSeq(f, 1, Len(f) - 1) ELSE f

\* C16 as stated: the row parsed from a buffered table line, with or without
\* a closing '|', is the sequence of its trimmed fields without the empty
\* leading and the empty trailing field; no non-empty field is discarded
C16_NoFieldDiscarded ==
  \A k \in Events("autoTable") :
    LET e == log[k]
    IN  /\ e.head = << DropEmptyLast(DropEmptyFirst(Fields(e.lines[1]))) >>
        /\ \A r \in 1..Len(e.body) :
              e.body[r] = DropEmptyLast(DropEmptyFirst(Fields(e.lines[r + 2])))


----------------------------------------------------------------------------
(* C17: a table ended by a text line.                                      *)

\* the places of the trace where a block begins, and the input line of each
BlocksAt ==
  Events("heading") \cup Events("autoTable") \cup RendersAt("para")
    \cup RendersAt("bullet")

LineOf(k) ==
  IF log[k].op = "autoTable" THEN log[k].nos[Len(log[k].nos)] ELSE log[k].no

\* the block at j is the block of line n, of the kind that line has
IsBlockOf(j, n, text) ==
  /\ log[j].op \in {"heading", "render"}
  /\ log[j].no = n
  /\ IF IsH2(text)
     THEN /\ log[j].op = "heading"
          /\ log[j].level = 2
          /\ log[j].text = Substring(text, 3, Len(text))
     ELSE IF IsH3(text)
     THEN /\ log[j].op = "heading"
          /\ log[j].level = 3
          /\ log[j].text = Substring(text, 4, Len(text))
     ELSE IF IsBullet(text)
     THEN /\ log[j].op = "render"
          /\ log[j].caller = "bullet"
     ELSE /\ log[j].op = "render"
          /\ log[j].caller = "para"
          /\ log[j].line = text

\* C17: the blocks are emitted in the order of their lines; a table that is
\* ended by a text line does not contain that line, and once the line has
\* been processed it has been emitted after the table as a block of its own
\* kind (heading, bullet or paragraph)
C17_TableThenLine ==
  /\ \A j, k \in BlocksAt : j < k => LineOf(j) <= LineOf(k)
  /\ \A k \in Events("autoTable") :
        log[k].cont = "text" =>
          /\ \A p \in 1..Len(log[k].nos) : log[k].nos[p] < log[k].by
          /\ (lineNo > log[k].by \/ LayoutFinished) =>
                \E j \in BlocksAt : j > k /\ log[j].no = log[k].by
          /\ (lineNo = log[k].by /\ pc = "lines") =>
                \E j \in BlocksAt :
                  /\ j > k
                  /\ IsBlockOf(j, lineNo, curLine)
                  /\ \A b \in BlocksAt : b < j => LineOf(b) < lineNo

\* a table of two lines was ended by a heading, which was then drawn
C17_Witness ==
  /\ pc = "done"
  /\ \E k \in Events("autoTable") :
        /\ log[k].cont = "text"
        /\ Len(log[k].nos) = 2
        /\ \E j \in Events("heading") : j > k /\ log[j].no = log[k].by


----------------------------------------------------------------------------
(* C18: the draw positions of consecutive text blocks.                     *)

\* the places of the trace where a heading is drawn or a physical line of
\* a bullet or a paragraph is begun
TextLinesAt ==
  Events("heading") \cup RendersAt("para") \cup RendersAt("bullet")

\* k is the next text line after j, on the same page
NextOnPage(j, k) ==
  /\ j < k
  /\ log[j].page = log[k].page
  /\ \A m \in (j + 1)..(k - 1) :
        /\ m \notin TextLinesAt
        /\ log[m].op \notin {"addPage", "autoTable"}

\* C18 as stated: from one text line to the next on the same page the draw
\* position strictly increases; two bullet lines, or a paragraph and the
\* bullet after it, are never drawn at the same y
C18_DrawPositionIncreases ==
  \A j, k \in TextLinesAt : NextOnPage(j, k) => log[k].y > log[j].y


----------------------------------------------------------------------------
(* C19: inTable and tableLines.                                            *)

\* renderTable returns: autoTable has drawn its last row and the code after
\* the call goes on
RenderTableReturns == pc = "table" /\ pc' \in {"lines", "block", "number"}

\* C19: inTable is true exactly when tableLines is not empty; renderTable is
\* only called with at least one buffered line, whose first line is the
\* header row; when renderTable returns, inTable is false and tableLines is
\* empty
C19_InTableIffBuffered ==
  /\ [](inTable <=> tableLines # <<>>)
  /\ [](\A k \in Events("autoTable") :
          /\ Len(log[k].lines) >= 1
          /\ log[k].head = << RowCells(log[k].lines[1]) >>)
  /\ [][RenderTableReturns => (~inTable' /\ tableLines' = <<>>)]_vars

\* a table has been rendered and a row of the next table is buffered
C19_Witness ==
  /\ pc = "lines"
  /\ inTable
  /\ Len(tableLines) = 1
  /\ Events("autoTable") # {}
  /\ lineNo = 3


----------------------------------------------------------------------------
(* C20: what a call of renderFormattedLine has emitted when it returns.    *)

\* the characters of a sequence of emissions or of tokens, each with the
\* url it is linked to (NoUrl when it is not a link)
Linked(text, url) == [p \in 1..Len(text) |-> [char |-> text[p], url |-> url]]

RECURSIVE EmittedChars(_)
EmittedChars(events) ==
  IF events = <<>> THEN <<>>
  ELSE LET e == Head(events)
       IN  Linked(e.text, IF e.op = "link" THEN e.url ELSE NoUrl)
             \o EmittedChars(Tail(events))

RECURSIVE SpanChars(_)
SpanChars(toks) ==
  IF toks = <<>> THEN <<>>
  ELSE LET t == Head(toks)
       IN  Linked(t.text, IF t.isLink THEN t.url ELSE NoUrl)
             \o SpanChars(Tail(toks))

\* the emissions of the call that returns at r, in the order they were made
EmissionsOfCall(r) ==
  SelectSeq(SubSeq(log, RenderCallOf(r) + 1, r - 1),
            LAMBDA e : e.op \in {"text", "link"})

\* C20: when renderFormattedLine returns, the texts it emitted, joined in
\* the order of emission, are the texts of the spans of its line joined in
\* span order, character by character; the characters of a link span were
\* emitted as hyperlinks carrying the url of the span, all other characters
\* as plain text
C20_EmittedIsSpans ==
  \A r \in Events("return") :
    LET spans == tokenizeLine(log[RenderCallOf(r)].line)
    IN  /\ EmittedChars(EmissionsOfCall(r)) = SpanChars(spans)
        /\ \A p \in 1..Len(EmissionsOfCall(r)) :
              EmissionsOfCall(r)[p].text # <<>>

\* a call has returned after wrapping a link and emitting its last
\* character by the forced single-character fallback
C20_Witness ==
  \E r \in Events("return") :
    /\ Len(EmissionsOfCall(r)) >= 3
    /\ \E p, q \in 1..Len(EmissionsOfCall(r)) :
          /\ EmissionsOfCall(r)[p].y < EmissionsOfCall(r)[q].y
          /\ EmissionsOfCall(r)[q].forced
          /\ EmissionsOfCall(r)[q].op = "link"


----------------------------------------------------------------------------
(* C21: what a page added by checkPageBreak receives.                      *)

\* the places of the trace where something is drawn on a page: a text run,
\* a heading or a cell of a table
DrawnAt ==
  Events("text") \cup Events("link") \cup Events("heading")
    \cup Events("cell")

\* the pages added by checkPageBreak
CheckedPagesAt ==
  { k \in Events("addPage") : log[k].by = "checkPageBreak" }

\* C21 as stated: every page added by checkPageBreak receives a drawn text
\* run, heading or table before another page is added or layout ends, so no
\* page of the output holds only its page number
C21_NoEmptyPage ==
  \A k \in CheckedPagesAt :
    LET later == { j \in Events("addPage") : j > k }
        upto == IF later # {} THEN MinOf(later) ELSE Len(log) + 1
    IN  (later # {} \/ LayoutFinished) =>
          \E d \in DrawnAt :
            /\ k < d
            /\ d < upto
            /\ log[d].page = log[k].page


----------------------------------------------------------------------------
(* C22: handleFormSubmit and the chat form.                                *)

============================================================================
